---- MODULE Spec2Model ----
(***************************************************************************)
(* A model of flash_cards_app_v3_with_choices: the FlashcardDeck class,    *)
(* its two backing text files and the operations performed on a deck.     *)
(*                                                                         *)
(* A Python str is a sequence of one-character strings, so that lower(),   *)
(* strip(), the "\n" written by write_file and the line splitting done by  *)
(* readlines() are computed character by character.                        *)
(***************************************************************************)
EXTENDS Integers, Sequences, FiniteSets, TLC

VARIABLES
    fs,          \* the file system: path -> [exists, data]
    deckState,   \* "Uninitialized" | "Loaded" | "Failed" (ValueError raised in __init__)
    ques_file,   \* self.__ques_file
    ans_file,    \* self.__ans_file
    questions,   \* self.questions
    answers,     \* self.answers
    flashcards,  \* self.flashcards: a list of Flashcard objects
    pc,          \* "idle" | "asking" (ask_questions is blocked in input())
    pos,         \* ask_questions: 1-based position of the loop in self.flashcards
    score,       \* ask_questions: the local score
    attempted,   \* ask_questions: the number printed after "out of"
    op,          \* the operation called most recently
    inputs,      \* the lines the most recent operation took from the input source
    msgs,        \* the messages the most recent operation printed / raised
    faults       \* the environment: how many calls of write_file have failed

vars == <<fs, deckState, ques_file, ans_file, questions, answers, flashcards,
          pc, pos, score, attempted, op, inputs, msgs, faults>>

\* The largest deck add_question is let to build.
MaxCards == 3
\* The most calls of write_file the environment lets fail.
MaxFaults == 1

NL == "\n"
SP == " "
\* The characters str.strip() removes, among those of the model's alphabet.
Whitespace == {SP, NL}

QuesPath == "questions"
AnsPath == "answers"
Paths == {QuesPath, AnsPath}

Min(S) == CHOOSE x \in S : \A y \in S : x <= y
Max(S) == CHOOSE x \in S : \A y \in S : x >= y

----------------------------------------------------------------------------
(* str methods *)

lower_char(c) ==
    CASE c = "A" -> "a"
      [] c = "B" -> "b"
      [] c = "C" -> "c"
      [] c = "Q" -> "q"
      [] OTHER -> c

\* lower() left out: a comparison that minds the case
lower_identity(s) == s

\* str.lower()
lower(s) == [i \in 1..Len(s) |-> lower_char(s[i])]

\* str.rstrip("\n") in the place of strip(): only the newline removed
strip_newline_only(s) ==
    IF Len(s) > 0 /\ s[Len(s)] = NL THEN SubSeq(s, 1, Len(s) - 1) ELSE s

\* str.strip(): leading and trailing whitespace removed
strip(s) ==
    LET keep == {i \in 1..Len(s) : s[i] \notin Whitespace}
    IN  IF keep = {} THEN <<>> ELSE SubSeq(s, Min(keep), Max(keep))

----------------------------------------------------------------------------
(* files *)

Missing == [exists |-> FALSE, data |-> <<>>]
File(data) == [exists |-> TRUE, data |-> data]

\* f.readlines(): the lines of the text, each with its terminating "\n"
\* (the last one without, when the text does not end in "\n")
RECURSIVE readlines(_)
readlines(data) ==
    IF data = <<>> THEN <<>>
    ELSE LET nls == {i \in 1..Len(data) : data[i] = NL}
             k   == IF nls = {} THEN Len(data) ELSE Min(nls)
         IN  <<SubSeq(data, 1, k)>> \o readlines(SubSeq(data, k + 1, Len(data)))

\* FlashcardDeck.read_file: the stripped lines, or [] and a message
read_file(file) ==
    IF file.exists
    THEN [lines |-> [i \in 1..Len(readlines(file.data)) |->
                        strip(readlines(file.data)[i])],
          msgs  |-> <<>>]
    ELSE [lines |-> <<>>, msgs |-> <<"FileMissing">>]

\* f.write(line): the newline forgotten
written_without_newline(line) == line

\* f.write(line + "\n")
written(line) == line \o <<NL>>

\* the text the loop of write_file has written after its first n lines
RECURSIVE file_image(_, _)
file_image(data, n) ==
    IF n = 0 THEN <<>> ELSE file_image(data, n - 1) \o written(data[n])

\* How a call of write_file may end: no error; open() raises (the file is
\* left as it was); a write raises (the file was truncated by open(), and
\* the buffered lines of so short a text never reached it).
WriteOutcomes(data, failed) ==
    {[err |-> "none", done |-> Len(data)]}
    \cup (IF failed < MaxFaults
          THEN {[err |-> "open", done |-> 0], [err |-> "write", done |-> 0]}
          ELSE {})

\* FlashcardDeck.write_file
write_file(file, data, outcome) ==
    CASE outcome.err = "none" ->
            [file |-> File(file_image(data, Len(data))), msgs |-> <<>>]
      [] outcome.err = "open" ->
            [file |-> file, msgs |-> <<"IOFailure">>]
      [] outcome.err = "write" ->
            [file |-> File(file_image(data, outcome.done)), msgs |-> <<"IOFailure">>]

----------------------------------------------------------------------------
(* cards *)

\* A Flashcard object. id stands for the object's identity: the class
\* defines no __eq__, so two cards are equal only when they are one object.
Flashcard(id, question, answer) ==
    [id |-> id, question |-> question, answer |-> answer]

\* an __eq__ that compares the question text
Flashcard_eq_by_question(x, y) == x.question = y.question

\* x == y on Flashcard objects (object.__eq__: identity)
Flashcard_eq(x, y) == x.id = y.id

\* Flashcard(a, q): the arguments exchanged
make_cards_swapped(qs, as) ==
    [i \in 1..Min({Len(qs), Len(as)}) |-> Flashcard(i, as[i], qs[i])]

\* [Flashcard(q, a) for q, a in zip(questions, answers)]: new objects; zip
\* stops at the shorter list
make_cards(qs, as) ==
    [i \in 1..Min({Len(qs), Len(as)}) |-> Flashcard(i, qs[i], as[i])]

\* the test of the lengths left out
length_mismatch_unchecked(qs, as) == FALSE

\* the test of __init__ that raises ValueError
length_mismatch(qs, as) == Len(qs) # Len(as)

\* the last position holding x in the place of the first
list_index_last(list, x) == Max({i \in 1..Len(list) : list[i] = x})

\* list.index(x) on a list of str, 1-based: the first position holding x
list_index(list, x) == Min({i \in 1..Len(list) : list[i] = x})

\* self.flashcards.index(flashcard), 0-based as in Python
flashcards_index(list, card) ==
    Min({i \in 1..Len(list) : Flashcard_eq(list[i], card)}) - 1

\* del list[index], index 1-based
del_item(list, index) ==
    SubSeq(list, 1, index - 1) \o SubSeq(list, index + 1, Len(list))

\* del self.flashcards[index] in the place of the rebuild
cards_patched(qs, as, cards, index) == del_item(cards, index)

\* delete_question's rebuild of self.flashcards after the two del statements
cards_after_delete(qs, as, cards, index) == make_cards(qs, as)

\* random.choices(cards, k=len(cards)): drawn with replacement
shuffled_with_replacement(cards) ==
    {[i \in 1..Len(cards) |-> cards[p[i]]] : p \in [1..Len(cards) -> 1..Len(cards)]}

\* the results random.shuffle(cards) can give: every permutation of cards
shuffled(cards) ==
    {[i \in 1..Len(cards) |-> cards[p[i]]] :
        p \in {f \in [1..Len(cards) -> 1..Len(cards)] :
                 \A i, j \in 1..Len(cards) : f[i] = f[j] => i = j}}

----------------------------------------------------------------------------
(* the inputs *)

Str_a  == <<"a">>
Str_A  == <<"A">>
Str_sa == <<SP, "a">>
Str_b  == <<"b">>
Str_B  == <<"B">>
Str_Bs == <<"B", SP>>
Str_q  == <<"q">>
Str_Q  == <<"Q">>

\* the (question, answer) pairs entered under "2. Add a question"
AddInputs == {<<Str_a, Str_b>>, <<Str_sa, Str_Bs>>}
\* the questions entered under "3. Delete a question"
DeleteInputs == {Str_a, Str_A, Str_sa}
\* the answers typed during the test
Responses == {Str_q, Str_Q, Str_b, Str_B}

\* what the two files may hold when the program starts
InitQuesFiles == {Missing, File(<<>>), File(<<"a", NL>>), File(<<"a", NL, "A">>)}
InitAnsFiles == {Missing, File(<<>>), File(<<"b", SP, NL, NL>>)}

----------------------------------------------------------------------------
(* the operations *)

\* the state before the first operation, the environment aside
InitProgram ==
    /\ fs \in {[p \in Paths |-> IF p = QuesPath THEN q ELSE a] :
                  q \in InitQuesFiles, a \in InitAnsFiles}
    /\ deckState = "Uninitialized"
    /\ ques_file = QuesPath
    /\ ans_file = AnsPath
    /\ questions = <<>>
    /\ answers = <<>>
    /\ flashcards = <<>>
    /\ pc = "idle"
    /\ pos = 0
    /\ score = 0
    /\ attempted = 0
    /\ op = "none"
    /\ inputs = <<>>
    /\ msgs = <<>>

Init == InitProgram /\ faults = 0

\* FlashcardDeck(question_file, answer_file)
Construct ==
    /\ pc = "idle"
    /\ LET rq == read_file(fs[QuesPath])
           ra == read_file(fs[AnsPath])
       IN  /\ ques_file' = QuesPath
           /\ ans_file' = AnsPath
           /\ questions' = rq.lines
           /\ answers' = ra.lines
           /\ IF length_mismatch(rq.lines, ra.lines)
              THEN /\ deckState' = "Failed"
                   /\ flashcards' = <<>>
                   /\ msgs' = rq.msgs \o ra.msgs \o <<"LengthMismatch">>
              ELSE /\ deckState' = "Loaded"
                   /\ flashcards' = make_cards(rq.lines, ra.lines)
                   /\ msgs' = rq.msgs \o ra.msgs
    /\ op' = "construct"
    /\ inputs' = <<>>
    /\ pos' = 0 /\ score' = 0 /\ attempted' = 0
    /\ UNCHANGED <<fs, pc, faults>>

\* deck.shuffle()
Shuffle ==
    /\ pc = "idle"
    /\ deckState = "Loaded"
    /\ flashcards' \in shuffled(flashcards)
    /\ op' = "shuffle"
    /\ inputs' = <<>>
    /\ msgs' = <<>>
    /\ pos' = 0 /\ score' = 0 /\ attempted' = 0
    /\ UNCHANGED <<fs, deckState, ques_file, ans_file, questions, answers, pc,
                   faults>>

\* deck.ask_questions(), up to its first input() (or to its end, on an
\* empty deck)
AskStart ==
    /\ pc = "idle"
    /\ deckState = "Loaded"
    /\ op' = "ask"
    /\ inputs' = <<>>
    /\ score' = 0
    /\ IF Len(flashcards) = 0
       THEN /\ pc' = "idle"
            /\ pos' = 0
            /\ attempted' = Len(flashcards)
            /\ msgs' = <<"FinalScore">>
       ELSE /\ pc' = "asking"
            /\ pos' = 1
            /\ attempted' = 0
            /\ msgs' = <<>>
    /\ UNCHANGED <<fs, deckState, ques_file, ans_file, questions, answers,
                   flashcards, faults>>

\* ask_questions from the return of input() to the next input() or to its end
AskAnswer(user_answer) ==
    /\ pc = "asking"
    /\ LET flashcard == flashcards[pos]
           n == Len(flashcards)
       IN  IF lower(user_answer) = Str_q
           THEN /\ attempted' = n - (n - flashcards_index(flashcards, flashcard) - 1)
                /\ msgs' = Append(msgs, "Quitting")
                /\ pc' = "idle"
                /\ pos' = 0
                /\ score' = score
           ELSE LET correct == lower(user_answer) = lower(flashcard.answer)
                    said == Append(msgs, IF correct THEN "Correct" ELSE "Sorry")
                IN  /\ score' = IF correct THEN score + 1 ELSE score
                    /\ IF pos = n
                       THEN /\ msgs' = Append(said, "FinalScore")
                            /\ attempted' = n
                            /\ pc' = "idle"
                            /\ pos' = 0
                       ELSE /\ msgs' = said
                            /\ attempted' = attempted
                            /\ pc' = "asking"
                            /\ pos' = pos + 1
    /\ inputs' = Append(inputs, user_answer)
    /\ UNCHANGED <<fs, deckState, ques_file, ans_file, questions, answers,
                   flashcards, op, faults>>

\* the two calls of write_file that end add_question and delete_question,
\* the questions file first; wq and wa are how the two calls end
Save(qs, as, wq, wa) ==
    LET w1 == write_file(fs[ques_file], qs, wq)
        fs1 == [fs EXCEPT ![ques_file] = w1.file]
        w2 == write_file(fs1[ans_file], as, wa)
    IN  /\ fs' = [fs1 EXCEPT ![ans_file] = w2.file]
        /\ msgs' = w1.msgs \o w2.msgs
        /\ faults' = faults + Len(w1.msgs) + Len(w2.msgs)

\* deck.add_question(question, answer)
AddQuestion(question, answer) ==
    /\ pc = "idle"
    /\ deckState = "Loaded"
    /\ Len(questions) < MaxCards
    /\ questions' = Append(questions, question)
    /\ answers' = Append(answers, answer)
    /\ flashcards' = Append(flashcards,
                            Flashcard(Len(flashcards) + 1, question, answer))
    /\ \E wq \in WriteOutcomes(Append(questions, question), faults) :
           \E wa \in WriteOutcomes(Append(answers, answer),
                                   faults + (IF wq.err = "none" THEN 0 ELSE 1)) :
               Save(Append(questions, question), Append(answers, answer), wq, wa)
    /\ op' = "add"
    /\ inputs' = <<question, answer>>
    /\ pos' = 0 /\ score' = 0 /\ attempted' = 0
    /\ UNCHANGED <<deckState, ques_file, ans_file, pc>>

\* deck.delete_question(question)
DeleteQuestion(question) ==
    /\ pc = "idle"
    /\ deckState = "Loaded"
    /\ IF \E i \in 1..Len(questions) : questions[i] = question
       THEN LET index == list_index(questions, question)
                qs == del_item(questions, index)
                as == del_item(answers, index)
            IN  /\ questions' = qs
                /\ answers' = as
                /\ flashcards' = cards_after_delete(qs, as, flashcards, index)
                /\ \E wq \in WriteOutcomes(qs, faults) :
                       \E wa \in WriteOutcomes(as,
                                   faults + (IF wq.err = "none" THEN 0 ELSE 1)) :
                           Save(qs, as, wq, wa)
       ELSE /\ msgs' = <<"NotFound">>
            /\ UNCHANGED <<fs, questions, answers, flashcards, faults>>
    /\ op' = "delete"
    /\ inputs' = <<question>>
    /\ pos' = 0 /\ score' = 0 /\ attempted' = 0
    /\ UNCHANGED <<deckState, ques_file, ans_file, pc>>

Ask == \E user_answer \in Responses : AskAnswer(user_answer)

Add == \E qa \in AddInputs : AddQuestion(qa[1], qa[2])

Delete == \E question \in DeleteInputs : DeleteQuestion(question)

\* the deck and its files: every operation but the test
Next == Construct \/ Shuffle \/ Add \/ Delete

Spec == Init /\ [][Next]_vars

\* the test, on every deck built on a disk that does not fail
InitQuiz == InitProgram /\ faults = MaxFaults

NextQuiz == Construct \/ Shuffle \/ Add \/ Delete \/ AskStart \/ Ask

SpecQuiz == InitQuiz /\ [][NextQuiz]_vars

----------------------------------------------------------------------------
(* what the properties are stated with; none of it is used by the actions *)

Pairs(cards) == [i \in 1..Len(cards) |-> <<cards[i].question, cards[i].answer>>]

Zip(qs, as) == [i \in 1..Len(qs) |-> <<qs[i], as[i]>>]

RemoveAt(list, i) ==
    [j \in 1..(Len(list) - 1) |-> IF j < i THEN list[j] ELSE list[j + 1]]

Occurrences(list, x) == Cardinality({i \in 1..Len(list) : list[i] = x})

SameMultiset(s, t) ==
    /\ Len(s) = Len(t)
    /\ \A i \in 1..Len(s) : Occurrences(s, s[i]) = Occurrences(t, s[i])

\* the number of lines of a file: its newlines, and one more for a last
\* line that no newline ends; a missing file has none
LineCount(file) ==
    IF ~file.exists THEN 0
    ELSE Cardinality({i \in 1..Len(file.data) : file.data[i] = NL})
         + (IF file.data # <<>> /\ file.data[Len(file.data)] # NL THEN 1 ELSE 0)

\* whether the last line of the file is `line`, ended by a newline
EndsWithLine(file, line) ==
    LET d == file.data
        n == Len(d)
        m == Len(line)
    IN  /\ file.exists
        /\ n >= m + 1
        /\ d[n] = NL
        /\ SubSeq(d, n - m, n - 1) = line
        /\ (n > m + 1 => d[n - m - 1] = NL)

RECURSIVE SavedText(_)
SavedText(lines) ==
    IF lines = <<>> THEN <<>> ELSE Head(lines) \o <<NL>> \o SavedText(Tail(lines))

Blank(c) == c = " " \/ c = "\n"

RECURSIVE DropLeading(_)
DropLeading(s) == IF s # <<>> /\ Blank(Head(s)) THEN DropLeading(Tail(s)) ELSE s

RECURSIVE DropTrailing(_)
DropTrailing(s) ==
    IF s # <<>> /\ Blank(s[Len(s)]) THEN DropTrailing(SubSeq(s, 1, Len(s) - 1)) ELSE s

Trimmed(s) == DropTrailing(DropLeading(s))

TrimmedAll(list) == [i \in 1..Len(list) |-> Trimmed(list[i])]

IsQuit(r) == r = <<"q">> \/ r = <<"Q">>

SameLetter(c, d) ==
    c = d \/ {c, d} \in {{"a", "A"}, {"b", "B"}, {"c", "C"}, {"q", "Q"}}

\* equal after lower-casing both sides
Matches(r, answer) ==
    Len(r) = Len(answer) /\ \A i \in 1..Len(r) : SameLetter(r[i], answer[i])

\* how many of the first k responses match the answer of the card shown
Right(k) == Cardinality({i \in 1..k : Matches(inputs[i], flashcards[i].answer)})

Last(list) == list[Len(list)]

QuizQuit == op = "ask" /\ pc = "idle" /\ Last(msgs) = "Quitting"

QuizCompleted == op = "ask" /\ pc = "idle" /\ Last(msgs) = "FinalScore"

Found == op = "delete" /\ msgs # <<"NotFound">>

SaveSucceeded == "IOFailure" \notin {msgs[i] : i \in 1..Len(msgs)}

----------------------------------------------------------------------------
(* the properties *)

\* C1: on every deck that was constructed, after any sequence of shuffle,
\* add_question and delete_question (found or not, saved or not),
\* questions, answers and flashcards have the same length.
C1_EqualLengths ==
    deckState = "Loaded" =>
        Len(questions) = Len(answers) /\ Len(answers) = Len(flashcards)

C1_Witness ==
    /\ deckState = "Loaded"
    /\ Found
    /\ Len(flashcards) = 2
    /\ faults > 0

\* C2: a construction fails with LengthMismatch exactly when the two files
\* have different numbers of lines (a missing file has none); a deck whose
\* construction failed takes no operation, only a new construction can
\* follow; a construction that succeeds pairs questions[i] with answers[i]
\* in flashcards[i], for every line of the files.
C2_Constructed ==
    op = "construct" =>
        IF LineCount(fs[QuesPath]) # LineCount(fs[AnsPath])
        THEN deckState = "Failed" /\ Last(msgs) = "LengthMismatch"
        ELSE /\ deckState = "Loaded"
             /\ Len(questions) = LineCount(fs[QuesPath])
             /\ Len(flashcards) = Len(questions)
             /\ Len(answers) = Len(questions)
             /\ \A i \in 1..Len(flashcards) :
                    /\ flashcards[i].question = questions[i]
                    /\ flashcards[i].answer = answers[i]

C2_Construct ==
    [][/\ op' = "construct" => C2_Constructed'
       /\ deckState = "Failed" => op' = "construct"]_vars

C2_Witness ==
    /\ op = "construct"
    /\ deckState = "Failed"
    /\ ~fs[QuesPath].exists
    /\ LineCount(fs[AnsPath]) > 0

\* C3: add_question(q, a) appends q to questions, a to answers and the
\* card (q, a) to flashcards, changing no earlier entry, also when q is in
\* the deck already; when both files were saved, each has as many lines as
\* the deck has cards, and q and a are their last lines.
C3_AddAppends ==
    [][op' = "add" =>
         LET q == inputs'[1]
             a == inputs'[2]
         IN  /\ questions' = questions \o <<q>>
             /\ answers' = answers \o <<a>>
             /\ Pairs(flashcards') = Pairs(flashcards) \o <<<<q, a>>>>
             /\ SaveSucceeded' =>
                  /\ LineCount(fs'[ques_file]) = Len(questions) + 1
                  /\ LineCount(fs'[ans_file]) = Len(answers) + 1
                  /\ EndsWithLine(fs'[ques_file], q)
                  /\ EndsWithLine(fs'[ans_file], a)]_vars

C3_Witness ==
    /\ op = "add"
    /\ SaveSucceeded
    /\ Len(questions) = 3
    /\ questions[1] = questions[3]
    /\ EndsWithLine(fs[ques_file], inputs[1])

\* C4: delete_question(q) removes the first position whose question is
\* exactly q from questions and answers and keeps every other entry, later
\* copies of q too, in order; when no question is q, it changes neither the
\* deck nor the files and reports NotFound.
C4_DeleteFirstMatch ==
    [][op' = "delete" =>
         LET q == inputs'[1]
             hits == {i \in 1..Len(questions) : questions[i] = q}
         IN  IF hits = {}
             THEN /\ msgs' = <<"NotFound">>
                  /\ UNCHANGED <<questions, answers, flashcards, fs>>
             ELSE LET first == CHOOSE i \in hits : \A j \in hits : i <= j
                  IN  /\ "NotFound" \notin {msgs'[i] : i \in 1..Len(msgs')}
                      /\ questions' = RemoveAt(questions, first)
                      /\ answers' = RemoveAt(answers, first)
                      /\ Len(questions') = Len(questions) - 1]_vars

C4_Witness ==
    /\ Found
    /\ \E i \in 1..Len(questions) :
          questions[i] = inputs[1] /\ answers[i] = <<"B">>

C4_WitnessNotFound ==
    /\ op = "delete"
    /\ msgs = <<"NotFound">>
    /\ \E i \in 1..Len(questions) : questions[i] = <<"A">>
    /\ inputs = <<(<<"a">>)>>

\* C5: a test stops at the first response that is "q" or "Q": if that is
\* the k-th response, attempted is k and the score is the number of the
\* k-1 responses before it that equal the answer of their card without
\* regard to case, and no card is shown after it; a test no response quits
\* shows every card, attempted is the number of cards and the score is the
\* number of responses that equal their card's answer without regard to case.
C5_QuizResult ==
    op = "ask" =>
        LET k == Len(inputs)
            n == Len(flashcards)
        IN  /\ \A i \in 1..(k - 1) : ~IsQuit(inputs[i])
            /\ pc = "asking" => k < n /\ pos = k + 1 /\ score = Right(k)
                                /\ (k > 0 => ~IsQuit(inputs[k]))
            /\ pc = "idle" /\ k > 0 /\ IsQuit(inputs[k]) =>
                  /\ Last(msgs) = "Quitting"
                  /\ attempted = k
                  /\ score = Right(k - 1)
            /\ pc = "idle" /\ (k = 0 \/ ~IsQuit(inputs[k])) =>
                  /\ Last(msgs) = "FinalScore"
                  /\ k = n
                  /\ attempted = n
                  /\ score = Right(n)

C5_Witness ==
    /\ QuizQuit
    /\ Len(flashcards) = 3
    /\ inputs = <<(<<"B">>), (<<"b">>), (<<"Q">>)>>
    /\ attempted = 3
    /\ score = 1

\* C6 as claimed: constructing a deck from the files a deck was saved to
\* gives the cards (questions[i], answers[i]) of the saved deck, whatever
\* whitespace its strings begin or end with.
C6_RoundTripIdentical ==
    [][(/\ deckState = "Loaded"
        /\ fs[ques_file] = File(SavedText(questions))
        /\ fs[ans_file] = File(SavedText(answers))
        /\ op' = "construct")
       => /\ deckState' = "Loaded"
          /\ Pairs(flashcards') = Zip(questions, answers)]_vars

\* C6, amended: constructing a deck from the files a deck was saved to
\* gives the cards (questions[i], answers[i]) of the saved deck with the
\* whitespace at both ends of every string removed; the cards are those of
\* the saved deck when no string begins or ends with whitespace.
C6_RoundTripStripped ==
    [][(/\ deckState = "Loaded"
        /\ fs[ques_file] = File(SavedText(questions))
        /\ fs[ans_file] = File(SavedText(answers))
        /\ op' = "construct")
       => /\ deckState' = "Loaded"
          /\ Pairs(flashcards') = Zip(TrimmedAll(questions), TrimmedAll(answers))
          /\ questions' = TrimmedAll(questions)
          /\ answers' = TrimmedAll(answers)]_vars

C6_Witness ==
    /\ op = "construct"
    /\ deckState = "Loaded"
    /\ fs[ques_file] = File(SavedText(questions))
    /\ \E i \in 1..Len(flashcards) :
          /\ flashcards[i].question = <<"a">>
          /\ flashcards[i].answer = <<"B">>

\* C7: shuffle changes only the order of flashcards: the cards after it
\* are the cards before it, each as often, and questions, answers and both
\* files are as they were.
C7_ShuffleFrame ==
    [][op' = "shuffle" =>
         /\ SameMultiset(flashcards', flashcards)
         /\ UNCHANGED <<questions, answers, fs, deckState>>]_vars

C7_Witness ==
    /\ op = "shuffle"
    /\ Len(flashcards) = 3
    /\ Pairs(flashcards) # Zip(questions, answers)

\* C8 as claimed: after add_question, and after delete_question of a
\* question of the deck, flashcards[i] is (questions[i], answers[i]) for
\* every i.
C8_RebuiltAfterMutation ==
    (op = "add" \/ Found) => Pairs(flashcards) = Zip(questions, answers)

\* C8, amended: delete_question of a question of the deck rebuilds
\* flashcards, so that flashcards[i] is (questions[i], answers[i]) whatever
\* shuffle did before; add_question only appends the new card, and leaves
\* the cards before it in the order a shuffle gave them.
C8_DeleteRebuildsAddAppends ==
    [][/\ Found' => Pairs(flashcards') = Zip(questions', answers')
       /\ op' = "add" =>
            /\ SubSeq(flashcards', 1, Len(flashcards)) = flashcards
            /\ Pairs(flashcards')[Len(flashcards')] = <<inputs'[1], inputs'[2]>>]_vars

C8_Witness ==
    /\ op = "add"
    /\ Len(flashcards) = 3
    /\ Pairs(flashcards) # Zip(questions, answers)

C8_WitnessDelete ==
    /\ Found
    /\ Len(flashcards) = 2
    /\ Pairs(flashcards) = Zip(questions, answers)

\* C9: after add_question or delete_question returns, whether or not a
\* save reported a failure, the two files have the same number of lines.
C9_FilesInSync ==
    op \in {"add", "delete"} =>
        LineCount(fs[ques_file]) = LineCount(fs[ans_file])

\* C10 as claimed: when the test is quit on a card whose question is also
\* the question of an earlier card, attempted is the first position of
\* flashcards with that question.
C10_AttemptedFirstMatchingIndex ==
    (QuizQuit /\ \E j \in 1..(Len(inputs) - 1) :
                    flashcards[j].question = flashcards[Len(inputs)].question)
    => attempted = CHOOSE j \in 1..Len(inputs) :
                      /\ flashcards[j].question = flashcards[Len(inputs)].question
                      /\ \A i \in 1..(j - 1) :
                            flashcards[i].question # flashcards[Len(inputs)].question

\* C10, amended: when the test is quit on a card whose question is also the
\* question of an earlier card, attempted is the position of the card
\* shown, as for any other card: index() finds the card object itself,
\* not a card with the same question.
C10_AttemptedIsPositionShown ==
    (QuizQuit /\ \E j \in 1..(Len(inputs) - 1) :
                    flashcards[j].question = flashcards[Len(inputs)].question)
    => attempted = Len(inputs)

C10_Witness ==
    /\ QuizQuit
    /\ Len(inputs) = 3
    /\ attempted = 3
    /\ flashcards[1].question = flashcards[3].question
    /\ flashcards[1].answer = flashcards[3].answer

====
